---- MODULE Spec2Model ----
(***************************************************************************)
(* Model of RPB.py: the restore orchestration of a SQL Server database.    *)
(*                                                                         *)
(*   restoration('SCRATCH')  ->  get_database_info, operator confirmation, *)
(*                               kill_database_connections,                *)
(*                               restore_database_from_folder              *)
(*   restore_database_from_folder -> scan_backup_folder, then one restore  *)
(*                               command per artifact of the chain, with   *)
(*                               progress_monitor running in a thread      *)
(*                                                                         *)
(* The engine (pyodbc / SQL Server) is the environment: every remote call  *)
(* may succeed or raise, and every state query returns what the engine     *)
(* chooses to show.                                                        *)
(***************************************************************************)
EXTENDS Integers, Sequences, FiniteSets, TLC

\* ------------------------------------------------------------------ bounds
\* Largest number of *.bak / *.trn files a folder given to
\* scan_backup_folder alone holds.
MaxFiles == 4
\* Largest number of files of a folder the whole restore is run on.
MaxDriverFiles == 3
\* Largest number of rows RESTORE FILELISTONLY returns for the full backup.
MaxLogicalFiles == 1
\* Largest number of logical files of a database whose files are relocated.
MaxRelocatedFiles == 2
\* Largest length of the list PARTITION_YEARS.
MaxYears == 2

\* ------------------------------------------------------ engine vocabulary
\* BackupType codes of RESTORE HEADERONLY: 1 database, 2 transaction log,
\* 5 differential database.
\* BackupTypeDescription column the engine reports for a BackupType code.
BackupTypeDescription(t) ==
    CASE t = 1 -> "Database"
      [] t = 2 -> "Transaction Log"
      [] t = 5 -> "Database Differential"
      [] OTHER -> "Unknown"

\* Python: 'Database' in str(backup_type_desc)
ContainsDatabase(desc) == desc \in {"Database", "Database Differential"}

\* Python: 'Transaction Log' in str(backup_type_desc)
ContainsTransactionLog(desc) == desc = "Transaction Log"

\* Checkpoint LSNs of the full backups and (FirstLSN, LastLSN) of the log
\* backups a folder may hold.
FullCheckpoints == {100, 150}
LogRanges == {<<100, 150>>, <<150, 200>>}

\* What RESTORE HEADERONLY yields for one file:
\*   "error"  the call raises, "nodesc" cursor.description is None,
\*   "empty"  fetchone() returns no row, "ok" a header row.
Header(out, type, ckpt, first, last) ==
    [out |-> out, BackupType |-> type,
     BackupTypeDescription |-> BackupTypeDescription(type),
     CheckpointLSN |-> ckpt, FirstLSN |-> first, LastLSN |-> last]

BadHeaders == {Header(o, 0, 0, 0, 0) : o \in {"error", "nodesc", "empty"}}

GoodHeaders ==
    {Header("ok", 1, c, c, c) : c \in FullCheckpoints}
      \cup {Header("ok", 2, r[1], r[1], r[2]) : r \in LogRanges}
      \cup {Header("ok", 5, 150, 150, 150)}

Headers == BadHeaders \cup GoodHeaders

\* The folder listing in enumeration order (glob of *.bak then *.trn); the
\* position of a file in the listing stands for its path.
Folders == UNION {[1..n -> Headers] : n \in 0..MaxFiles}

\* The folders the whole restore is run on: every file is unreadable, the
\* full backup of scenario A, or one of its two log backups.
DriverHeaders ==
    {Header("error", 0, 0, 0, 0), Header("ok", 1, 100, 100, 100),
     Header("ok", 2, 100, 100, 150), Header("ok", 2, 150, 150, 200)}

DriverFolders == UNION {[1..n -> DriverHeaders] : n \in 0..MaxDriverFiles}

\* Rows of RESTORE FILELISTONLY: the Type column of each logical file.
FileLists == UNION {[1..n -> {"D", "L"}] : n \in 0..MaxLogicalFiles}

\* percent_complete values sys.dm_exec_requests may show for the restore.
Percents == {0, 5, 10}

\* LogicalName values RESTORE FILELISTONLY may list for the master file, and
\* the file lists made of them.
LogicalNames == {"data", "data_log"}

MasterFileLists == UNION {[1..n -> LogicalNames] : n \in 0..MaxLogicalFiles}

\* The file lists of databases of one data file and more: the Type column
\* for the folder restore, the LogicalName column for the file restore.
RelocationFileLists ==
    UNION {[1..n -> {"D", "L"}] : n \in 1..MaxRelocatedFiles}

MasterRelocationFileLists ==
    UNION {[1..n -> LogicalNames] : n \in 1..MaxRelocatedFiles}

\* The years the two configured lists are made of, and the lists: a
\* Python list may name a year twice.
Years == {2024, 2025}

YearLists == UNION {[1..n -> Years] : n \in 0..MaxYears}

\* REQUIRED_BACKUP_YEAR names no year or one, as in the script.
RequiredYearLists == {<<>>} \cup {<<y>> : y \in Years}

\* percent_complete values the file restore may read while it waits.
FilePercents == {0, 5, 100}

\* States sys.databases may show for the target; "absent" is no row.
TargetStates == {"ONLINE", "RESTORING", "SUSPECT", "absent"}

VARIABLES
    caller,            \* "restoration" or "direct" call of the driver
    overwrite,         \* parameter overwrite
    restore_path,      \* TRUE when a restore_path is given
    stats_interval,    \* parameter stats_interval
    folder_exists,     \* os.path.exists(source_backup_folder)
    backup_files,      \* the folder listing, with what each header read yields
    pc,                \* position of the main thread
    db_info,           \* result of get_database_info in restoration()
    confirm,           \* operator's answer in restoration()
    scan_i,            \* index of the file scan_backup_folder reads next
    backups_info,      \* scan_backup_folder: headers read so far
    scan_result,       \* (success, chain or message) of scan_backup_folder
    idx,               \* loop index of the driver
    calls,             \* mutating remote calls issued so far, in order
    restore_command,   \* the command the driver built for the step
    restore_complete,  \* restore_complete[0]
    monitor_thread,    \* "none", or the position of progress_monitor
    last_percent,      \* progress_monitor: percentage last reported
    progress_events,   \* what the callback received from the monitor thread
    db_state,          \* last target state the main thread observed
    events,            \* what the callback received from the main thread
    result,            \* (success, message) of restore_database_from_folder
    ret,               \* return value of restoration()
    db_exists,         \* restore_database_from_file: db_exists
    waited,            \* restore_database_from_file: waited
    verify_i,          \* restore_database_from_file: i of the verification loop
    verifier,          \* what the verification loop has observed so far
    cleanup_state,     \* state read in the finally block of the file restore
    choice,            \* main: what the operator entered
    verify,            \* from_scratch, from_master: the operator's answer
    master_bkp_flag,   \* from_scratch: the operator's answer
    steps,             \* the steps of the pipeline run so far, in order
    purge_config,      \* PARTITION_YEARS, REQUIRED_BACKUP_YEAR as purge_years
                       \* finds them
    purge_log,         \* purge_years: its connect and its purge commands
    pipeline_ret,      \* return value of from_scratch or from_master
    exit_status        \* status the process exits with

vars == <<caller, overwrite, restore_path, stats_interval, folder_exists,
          backup_files, pc, db_info, confirm, scan_i, backups_info,
          scan_result, idx, calls, restore_command, restore_complete,
          monitor_thread, last_percent, progress_events, db_state, events,
          result, ret, db_exists, waited, verify_i, verifier, cleanup_state,
          choice, verify, master_bkp_flag, steps, purge_config, purge_log,
          pipeline_ret, exit_status>>

\* The variables only main, the two pipelines and purge_years write.
main_only == <<choice, verify, master_bkp_flag, steps, purge_config,
               purge_log, pipeline_ret, exit_status>>

\* What restoration() and the drivers leave alone: their parameters and the
\* state of the pipeline that called them.
params == <<caller, overwrite, restore_path, stats_interval, folder_exists,
            backup_files, main_only>>

\* The variables only restore_database_from_file writes.
file_only == <<db_exists, waited, verify_i, verifier, cleanup_state>>

\* The variables only restore_database_from_folder and its monitor write.
folder_only == <<scan_i, backups_info, scan_result, idx,
                 restore_complete, monitor_thread, progress_events>>

\* ----------------------------------------------------------------- helpers
NoResult == [done |-> FALSE, success |-> FALSE, msg |-> "", chain |-> <<>>]

Failure(m) == [done |-> TRUE, success |-> FALSE, msg |-> m, chain |-> <<>>]

Success(m, c) == [done |-> TRUE, success |-> TRUE, msg |-> m, chain |-> c]

\* What the callback receives: a status message, or a percentage from the
\* monitor.
Status(kind) == [kind |-> kind, percent_complete |-> 0]

Percent(p) == [kind |-> "percent", percent_complete |-> p]

\* info_dict: the header row plus info_dict['FilePath'].
InfoDict(h, path) ==
    [FilePath |-> path, BackupType |-> h.BackupType,
     BackupTypeDescription |-> h.BackupTypeDescription,
     CheckpointLSN |-> h.CheckpointLSN, FirstLSN |-> h.FirstLSN,
     LastLSN |-> h.LastLSN]

\* list.sort(key=lambda x: x.get(field, 0), reverse=...) is a stable sort:
\* an element goes behind every element whose key does not sort strictly
\* after its own.
Precedes(a, b, field, reverse) ==
    IF reverse THEN a[field] > b[field] ELSE a[field] < b[field]

RECURSIVE InsertStable(_, _, _, _)
InsertStable(x, s, field, reverse) ==
    IF s = <<>> THEN <<x>>
    ELSE IF Precedes(x, s[1], field, reverse) THEN <<x>> \o s
         ELSE <<s[1]>> \o InsertStable(x, Tail(s), field, reverse)

RECURSIVE SortStable(_, _, _)
SortStable(s, field, reverse) ==
    IF s = <<>> THEN <<>>
    ELSE InsertStable(s[Len(s)],
                      SortStable(SubSeq(s, 1, Len(s) - 1), field, reverse),
                      field, reverse)

IsFull(b) == b.BackupType = 1
IsLog(b) == b.BackupType = 2

full_backups(infos) == SelectSeq(infos, IsFull)
log_backups(infos) == SelectSeq(infos, IsLog)

\* sorted_backups with the log backups left in the order they were read.
sorted_backups_logs_unsorted(infos) ==
    <<SortStable(full_backups(infos), "CheckpointLSN", TRUE)[1]>>
        \o log_backups(infos)

\* sorted_backups = [full_backups[0]] + log_backups, after the two sorts.
sorted_backups(infos) ==
    <<SortStable(full_backups(infos), "CheckpointLSN", TRUE)[1]>>
        \o SortStable(log_backups(infos), "FirstLSN", FALSE)

\* A mutating remote call: the session reaper's two ALTER DATABASE
\* statements and the restore commands.  status is "running", "ok" or
\* "failed".
Call(op, i, path, flags, moves, status) ==
    [op |-> op, idx |-> i, path |-> path, flags |-> flags, moves |-> moves,
     status |-> status]

\* MOVE clauses built from the file list when a restore_path is given.
move_clauses(files) ==
    IF restore_path
    THEN [k \in 1..Len(files) |->
            [logical |-> k,
             to |-> IF files[k] = "D" THEN "_.mdf" ELSE "_.ldf"]]
    ELSE <<>>

\* database_options with NORECOVERY left out.
database_options_without_norecovery(i, n, moves) ==
    (IF overwrite /\ i = 0 THEN {"REPLACE"} ELSE {}) \cup {"STATS"}

\* database_options with REPLACE on the first step whatever overwrite says.
database_options_replace_always(i, n, moves) ==
    (IF i = 0 THEN {"REPLACE"} ELSE {})
      \cup (IF n > 1 THEN {"NORECOVERY"} ELSE {})
      \cup {"STATS"}

\* WITH options of the RESTORE DATABASE command of step i of n: the branch
\* with MOVE clauses appends REPLACE, STATS, NORECOVERY to cmd_parts, the
\* branch without collects REPLACE, NORECOVERY, STATS in with_opts.
database_options(i, n, moves) ==
    IF moves # <<>>
    THEN (IF overwrite /\ i = 0 THEN {"REPLACE"} ELSE {})
           \cup {"STATS"}
           \cup (IF n > 1 THEN {"NORECOVERY"} ELSE {})
    ELSE (IF overwrite /\ i = 0 THEN {"REPLACE"} ELSE {})
           \cup (IF n > 1 THEN {"NORECOVERY"} ELSE {})
           \cup {"STATS"}

\* log_options with the last step taken for an intermediate one.
log_options_off_by_one(i, n) ==
    (IF i < n THEN {"NORECOVERY"} ELSE {"RECOVERY"}) \cup {"STATS"}

\* WITH options of the RESTORE LOG command of step i of n.
log_options(i, n) ==
    (IF i < n - 1 THEN {"NORECOVERY"} ELSE {"RECOVERY"}) \cup {"STATS"}

\* What the verification loop of restore_database_from_file has seen: the
\* index i and the outcome of its last state query, whether the queries
\* before that one all showed RESTORING ("none": there was none), and
\* whether RESTORING has been seen at all.
NoObservation ==
    [poll |-> -1, last |-> "none", before |-> "none",
     seen_restoring |-> FALSE]

\* PARTITION_YEARS and REQUIRED_BACKUP_YEAR before purge_years reads them.
NoYears == [PARTITION_YEARS |-> <<>>, REQUIRED_BACKUP_YEAR |-> <<>>]

\* ------------------------------------------------------------------- Init
\* The state before the first statement of the entry point runs.
Start ==
    /\ db_info = "none"
    /\ confirm = "none"
    /\ scan_i = 1
    /\ backups_info = <<>>
    /\ scan_result = NoResult
    /\ idx = 0
    /\ calls = <<>>
    /\ restore_command = Call("none", 0, 0, {}, <<>>, "none")
    /\ restore_complete = FALSE
    /\ monitor_thread = "none"
    /\ last_percent = 0
    /\ progress_events = <<>>
    /\ db_state = "unobserved"
    /\ events = <<>>
    /\ result = NoResult
    /\ ret = "none"
    /\ db_exists = FALSE
    /\ waited = 0
    /\ verify_i = 0
    /\ verifier = NoObservation
    /\ cleanup_state = "unobserved"
    /\ choice = "none"
    /\ verify = "none"
    /\ master_bkp_flag = "none"
    /\ steps = <<>>
    /\ purge_config = NoYears
    /\ purge_log = <<>>
    /\ pipeline_ret = "none"
    /\ exit_status = -1

\* restoration('SCRATCH'), which passes overwrite=True, the configured
\* restore_path and stats_interval=5, or restore_database_from_folder called
\* with parameters of the caller's choice.
Init ==
    /\ caller \in {"restoration", "direct"}
    /\ overwrite \in BOOLEAN
    /\ restore_path \in BOOLEAN
    /\ stats_interval \in {5, 10}
    /\ caller = "restoration" =>
          overwrite /\ restore_path /\ stats_interval = 5
    /\ caller = "direct" => stats_interval = 10
    /\ folder_exists \in BOOLEAN
    /\ backup_files \in DriverFolders
    /\ ~folder_exists => backup_files = <<>>
    /\ pc = IF caller = "restoration" THEN "r_info" ELSE "f_scan"
    /\ Start

\* scan_backup_folder on its own, on any folder.
InitScan ==
    /\ caller = "scan"
    /\ overwrite = FALSE
    /\ restore_path = FALSE
    /\ stats_interval = 10
    /\ folder_exists \in BOOLEAN
    /\ backup_files \in Folders
    /\ ~folder_exists => backup_files = <<>>
    /\ pc = "f_scan"
    /\ Start

\* ------------------------------------------------------------ restoration
\* Lines 797 and 847: restoration('SCRATCH') restores from the folder,
\* restoration('MASTER') from the master file.
driver_entry == IF caller = "master" THEN "m_prepare" ELSE "f_scan"

\* restoration(): db_info = get_database_info(...).  A failing query makes
\* get_database_info return None, like a missing database.
restoration_get_database_info ==
    /\ pc = "r_info"
    /\ \E info \in {"exists", "absent", "error"} :
          /\ db_info' = info
          /\ pc' = IF info = "exists" THEN "r_confirm" ELSE driver_entry
    /\ UNCHANGED <<file_only, params, confirm, scan_i, backups_info, scan_result, idx,
                   calls, restore_command, restore_complete, monitor_thread,
                   last_percent, progress_events,
                   db_state, events, result, ret>>

\* restoration(): confirm = input(...); anything but 'y' returns False.
restoration_confirm ==
    /\ pc = "r_confirm"
    /\ \E c \in {"y", "n"} :
          /\ confirm' = c
          /\ IF c = "y"
             THEN pc' = "r_kill" /\ ret' = ret
             ELSE pc' = "done" /\ ret' = "False"
    /\ UNCHANGED <<file_only, params, db_info, scan_i, backups_info, scan_result, idx,
                   calls, restore_command, restore_complete, monitor_thread,
                   last_percent, progress_events,
                   db_state, events, result>>

\* reaper_returns with a failing SET MULTI_USER not counted.
reaper_returns_despite_multi(fail) == fail \in {"none", "multi"}

\* Lines 721-745: kill_database_connections returns True when none of its
\* three statements raised (fail "none"), False otherwise.
reaper_returns(fail) == fail = "none"

\* kill_database_connections(): connect, SET SINGLE_USER WITH ROLLBACK
\* IMMEDIATE, SET MULTI_USER; any of the three may raise, which returns
\* False, and restoration() then returns False.
kill_database_connections ==
    /\ pc = "r_kill"
    /\ \E fail \in {"connect", "single", "multi", "none"} :
          /\ calls' =
               CASE fail = "connect" -> calls
                 [] fail = "single" ->
                      Append(calls, Call("SET SINGLE_USER", 0, 0, {}, <<>>,
                                         "failed"))
                 [] fail = "multi" ->
                      calls \o
                        <<Call("SET SINGLE_USER", 0, 0, {}, <<>>, "ok"),
                          Call("SET MULTI_USER", 0, 0, {}, <<>>, "failed")>>
                 [] OTHER ->
                      calls \o
                        <<Call("SET SINGLE_USER", 0, 0, {}, <<>>, "ok"),
                          Call("SET MULTI_USER", 0, 0, {}, <<>>, "ok")>>
          /\ IF reaper_returns(fail)
             THEN pc' = driver_entry /\ ret' = ret
             ELSE pc' = "done" /\ ret' = "False"
    /\ UNCHANGED <<file_only, params, db_info, confirm, scan_i, backups_info,
                   scan_result, idx, restore_command, restore_complete,
                   monitor_thread,
                   last_percent, progress_events,
                   db_state, events, result>>

\* ----------------------------------------------------- scan_backup_folder
\* Lines 57-76: the folder must exist, the glob must not raise and must
\* yield at least one file.
scan_backup_folder_enumerate ==
    /\ pc = "f_scan"
    /\ \E glob_raises \in BOOLEAN :
          IF ~folder_exists
          THEN /\ scan_result' = Failure("FolderNotFound")
               /\ pc' = "f_scanned"
          ELSE IF glob_raises
          THEN /\ scan_result' = Failure("ErrorScanningFolder")
               /\ pc' = "f_scanned"
          ELSE IF backup_files = <<>>
          THEN /\ scan_result' = Failure("NoBackupFilesFound")
               /\ pc' = "f_scanned"
          ELSE /\ scan_result' = scan_result
               /\ pc' = "s_connect"
    /\ UNCHANGED <<file_only, params, db_info, confirm, scan_i, backups_info, idx, calls,
                   restore_command, restore_complete, monitor_thread,
                   last_percent, progress_events,
                   db_state, events, result, ret>>

\* Line 83: pyodbc.connect; a failure is caught at line 136.
scan_backup_folder_connect ==
    /\ pc = "s_connect"
    /\ \E ok \in BOOLEAN :
          IF ok
          THEN /\ pc' = "s_header"
               /\ scan_result' = scan_result
          ELSE /\ pc' = "f_scanned"
               /\ scan_result' = Failure("DatabaseErrorReadingHeaders")
    /\ UNCHANGED <<file_only, params, db_info, confirm, scan_i, backups_info, idx, calls,
                   restore_command, restore_complete, monitor_thread,
                   last_percent, progress_events,
                   db_state, events, result, ret>>

\* What one pass of the loop of lines 86-112 appends to backups_info: a
\* raising call, a missing description and an empty row all skip the file.
read_header(infos, h, path) ==
    IF h.out = "ok" THEN Append(infos, InfoDict(h, path)) ELSE infos

\* next_file with 'break' in the place of 'continue'.
next_file_break(h, i, n) == IF h.out = "ok" THEN i + 1 ELSE n + 1

\* Lines 93, 109 and 112: 'continue' after a file that could not be read, and
\* the end of the loop body after one that could, both go on with the next
\* file of the listing (of n files).
next_file(h, i, n) == i + 1

\* Lines 86-112: RESTORE HEADERONLY for the next file of the listing.
scan_backup_folder_read_header ==
    /\ pc = "s_header"
    /\ scan_i <= Len(backup_files)
    /\ backups_info' = read_header(backups_info, backup_files[scan_i], scan_i)
    /\ scan_i' = next_file(backup_files[scan_i], scan_i, Len(backup_files))
    /\ UNCHANGED <<file_only, params, pc, db_info, confirm, scan_result, idx, calls,
                   restore_command, restore_complete, monitor_thread,
                   last_percent, progress_events,
                   db_state, events, result, ret>>

\* resolve without the test of line 124: full_backups[0] then raises, which
\* line 140 turns into another failure.
resolve_without_full_check(infos) ==
    IF infos = <<>> THEN Failure("NoValidHeadersReadable")
    ELSE IF full_backups(infos) = <<>>
    THEN Failure("UnexpectedErrorScanningBackups")
    ELSE Success("", sorted_backups(infos))

\* Lines 114-134: what scan_backup_folder returns for the headers read.
resolve(infos) ==
    IF infos = <<>> THEN Failure("NoValidHeadersReadable")
    ELSE IF full_backups(infos) = <<>> THEN Failure("NoFullBackupPresent")
    ELSE Success("", sorted_backups(infos))

scan_backup_folder_resolve ==
    /\ pc = "s_header"
    /\ scan_i > Len(backup_files)
    /\ scan_result' = resolve(backups_info)
    /\ pc' = "f_scanned"
    /\ UNCHANGED <<file_only, params, db_info, confirm, scan_i, backups_info, idx, calls,
                   restore_command, restore_complete, monitor_thread,
                   last_percent, progress_events,
                   db_state, events, result, ret>>

\* --------------------------------------------- restore_database_from_folder
\* The chain the driver walks: backups_info of restore_database_from_folder.
chain == scan_result.chain

\* Lines 282-295: a failed scan is returned as it is; otherwise the callback
\* is told what was found and the driver connects.
folder_after_scan ==
    /\ pc = "f_scanned"
    /\ IF ~scan_result.success
       THEN /\ result' = Failure(scan_result.msg)
            /\ pc' = "f_finally"
            /\ UNCHANGED <<events, restore_complete>>
       ELSE /\ events' = Append(events, Status("Found"))
            /\ \E ok \in BOOLEAN :
                  IF ok
                  THEN /\ pc' = "f_loop"
                       /\ UNCHANGED <<result, restore_complete>>
                  ELSE /\ pc' = "f_finally"
                       /\ result' = Failure("SqlServerError")
                       /\ restore_complete' = TRUE
    /\ idx' = 0
    /\ UNCHANGED <<file_only, params, db_info, confirm, scan_i, backups_info,
                   scan_result, calls, restore_command, monitor_thread,
                   last_percent, progress_events,
                   db_state, ret>>

\* command_kind with the log backups sent to the database branch too.
command_kind_always_database(b) ==
    IF b.BackupType \in {1, 2} \/ ContainsDatabase(b.BackupTypeDescription)
    THEN "RESTORE DATABASE"
    ELSE "skip"

\* Line 315 and line 362: which command the artifact gets.
command_kind(b) ==
    IF b.BackupType = 1 \/ ContainsDatabase(b.BackupTypeDescription)
    THEN "RESTORE DATABASE"
    ELSE IF b.BackupType = 2
            \/ ContainsTransactionLog(b.BackupTypeDescription)
    THEN "RESTORE LOG"
    ELSE "skip"

\* Lines 297-396: the step's callback, the command for the artifact at idx
\* (for a database backup after RESTORE FILELISTONLY, which may raise), the
\* callback again, and the start of the monitor before a full backup.
\* lists are the file lists RESTORE FILELISTONLY may answer with.
folder_build_command_on(lists) ==
    /\ pc = "f_loop"
    /\ idx < Len(chain)
    /\ LET b == chain[idx + 1]
           n == Len(chain)
       IN  CASE command_kind(b) = "RESTORE DATABASE" ->
                  \E files \in lists, filelist_raises \in BOOLEAN :
                     IF filelist_raises
                     THEN /\ events' = Append(events, Status("Restoring"))
                          /\ result' = Failure("SqlServerError")
                          /\ restore_complete' = TRUE
                          /\ pc' = "f_finally"
                          /\ UNCHANGED <<restore_command, monitor_thread, idx>>
                     ELSE /\ events' = events \o <<Status("Restoring"), Status("Executing")>>
                          /\ restore_command' =
                               Call("RESTORE DATABASE", idx, b.FilePath,
                                    database_options(idx, n,
                                                     move_clauses(files)),
                                    move_clauses(files), "running")
                          /\ IF b.BackupType = 1
                             THEN /\ restore_complete' = FALSE
                                  /\ monitor_thread' = "connect"
                             ELSE UNCHANGED <<restore_complete,
                                              monitor_thread>>
                          /\ pc' = "f_issue"
                          /\ UNCHANGED <<result, idx>>
             [] command_kind(b) = "RESTORE LOG" ->
                  /\ events' = events \o <<Status("Restoring"), Status("Executing")>>
                  /\ restore_command' =
                       Call("RESTORE LOG", idx, b.FilePath,
                            log_options(idx, n), <<>>, "running")
                  /\ pc' = "f_issue"
                  /\ UNCHANGED <<result, idx, restore_complete,
                                 monitor_thread>>
             [] OTHER ->
                  /\ events' = Append(events, Status("Restoring"))
                  /\ idx' = idx + 1
                  /\ UNCHANGED <<pc, result, restore_command,
                                 restore_complete, monitor_thread>>
    /\ UNCHANGED <<file_only, params, db_info, confirm, scan_i, backups_info,
                   scan_result, calls, last_percent, progress_events, db_state, ret>>

folder_build_command == folder_build_command_on(FileLists)

\* The same step for a full backup of a database of several files.
folder_build_command_relocating ==
    folder_build_command_on(RelocationFileLists)

\* Line 401: cursor.execute(restore_command) sends the command.
folder_execute ==
    /\ pc = "f_issue"
    /\ calls' = Append(calls, restore_command)
    /\ pc' = "f_exec"
    /\ UNCHANGED <<file_only, params, db_info, confirm, scan_i, backups_info,
                   scan_result, idx, restore_command, restore_complete,
                   monitor_thread,
                   last_percent, progress_events,
                   db_state, events, result, ret>>

\* The last call of the log with its status set.
Returned(cs, status) == [cs EXCEPT ![Len(cs)].status = status]

\* after_command with the failure swallowed.
after_command_ignoring_failure(ok) == "next"

\* What the driver does with the outcome of the step's command: "next" goes
\* on with the following artifact, "abort" leaves the loop with an error.
after_command(ok) == IF ok THEN "next" ELSE "abort"

\* stop_signal_after with the flag cleared again by a log backup.
stop_signal_after_cleared_by_log(ok, is_full, flag) ==
    IF ok THEN is_full ELSE TRUE

\* stop_signal_after with the flag left alone when the command raises.
stop_signal_after_success_only(ok, is_full, flag) ==
    IF ok /\ is_full THEN TRUE ELSE flag

\* Lines 408-409 and 441-447: restore_complete[0] after the command of a
\* step: set when the command of the full backup returns, and set by the
\* except clause when a command raises.
stop_signal_after(ok, is_full, flag) ==
    IF ok THEN (IF is_full THEN TRUE ELSE flag) ELSE TRUE

\* Lines 441-446: the message returned when the command of step i, for
\* the file at path, raises: 'SQL Server error: ' and the text of the
\* engine's error; neither i nor path is put into it.
step_error(i, path) == "SqlServerError"

\* Lines 401-418 and 441-452: the command returns or raises.
folder_execute_return ==
    /\ pc = "f_exec"
    /\ \E ok \in BOOLEAN :
          /\ calls' = Returned(calls, IF ok THEN "ok" ELSE "failed")
          /\ IF after_command(ok) = "next"
             THEN /\ restore_complete' =
                       stop_signal_after(TRUE, chain[idx + 1].BackupType = 1,
                                         restore_complete)
                  /\ events' = Append(events, Status("StepCompleted"))
                  /\ idx' = idx + 1
                  /\ pc' = "f_loop"
                  /\ result' = result
             ELSE /\ restore_complete' =
                       stop_signal_after(FALSE, chain[idx + 1].BackupType = 1,
                                         restore_complete)
                  /\ result' =
                       Failure(step_error(idx, chain[idx + 1].FilePath))
                  /\ pc' = "f_finally"
                  /\ UNCHANGED <<events, idx>>
    /\ UNCHANGED <<file_only, params, db_info, confirm, scan_i, backups_info,
                   scan_result, restore_command, monitor_thread,
                   last_percent, progress_events,
                   db_state,
                   ret>>

\* Lines 420-439: one query of sys.databases after the last step; the
\* driver reports success whatever row comes back, and fails only when the
\* query itself raises.
folder_final_state ==
    /\ pc = "f_loop"
    /\ idx >= Len(chain)
    /\ \E s \in TargetStates \cup {"error"} :
          IF s = "error"
          THEN /\ result' = Failure("SqlServerError")
               /\ UNCHANGED <<db_state, events>>
          ELSE /\ db_state' = s
               /\ events' = Append(events, Status("COMPLETED"))
               /\ result' = Success("Restore completed successfully.", chain)
    /\ restore_complete' = TRUE
    /\ pc' = "f_finally"
    /\ UNCHANGED <<file_only, params, db_info, confirm, scan_i, backups_info,
                   scan_result, idx, calls, restore_command, monitor_thread,
                   last_percent, progress_events,
                   ret>>

\* join_returns with a join that has no timeout.
join_returns_when_thread_ended(thread) ==
    thread \in {"none", "exited", "failed"}

\* Lines 455-457: monitor_thread.join(timeout=5) returns after five
\* seconds at the latest, whether or not the thread has ended.
join_returns(thread) == TRUE

\* Lines 453-466: the flag is set, the monitor is joined for at most five
\* seconds, and the function returns.
folder_finally ==
    /\ pc = "f_finally"
    /\ join_returns(monitor_thread)
    /\ restore_complete' = TRUE
    /\ pc' = IF caller = "restoration" THEN "r_result" ELSE "done"
    /\ UNCHANGED <<file_only, params, db_info, confirm, scan_i, backups_info,
                   scan_result, idx, calls, restore_command, monitor_thread,
                   last_percent, progress_events,
                   db_state, events, result, ret>>

\* Lines 806-811: restoration() returns what the driver reported.
restoration_return ==
    /\ pc = "r_result"
    /\ ret' = IF result.success THEN "True" ELSE "False"
    /\ pc' = "done"
    /\ UNCHANGED <<file_only, params, db_info, confirm, scan_i, backups_info,
                   scan_result, idx, calls, restore_command,
                   restore_complete, monitor_thread,
                   last_percent, progress_events,
                   db_state, events,
                   result>>

\* -------------------------------------------------------- progress_monitor
\* thread_failure_effect with the exception reaching the driver.
thread_failure_effect_fails_driver(r) ==
    IF r.done THEN r ELSE Failure("ProgressMonitorError")

\* Lines 260 and 265: both except clauses are inside the thread function,
\* so an exception raised in the thread ends there; the result of the
\* driver is what it was.
thread_failure_effect(r) == r

\* Lines 227-231 and 265-268: the monitor opens its own session; a failure
\* is reported to the callback and ends the thread ("failed"), and when
\* that callback raises too the thread ends without the report.
progress_monitor_connect ==
    /\ monitor_thread = "connect"
    /\ \E ok \in BOOLEAN, callback_ok \in BOOLEAN :
          IF ok
          THEN /\ monitor_thread' = "check"
               /\ last_percent' = 0
               /\ UNCHANGED <<progress_events, result>>
          ELSE /\ monitor_thread' = "failed"
               /\ progress_events' =
                    IF callback_ok
                    THEN Append(progress_events, Status("MonitorError"))
                    ELSE progress_events
               /\ result' = thread_failure_effect(result)
               /\ last_percent' = last_percent
    /\ UNCHANGED <<file_only, params, pc, db_info, confirm, scan_i, backups_info,
                   scan_result, idx, calls, restore_command,
                   restore_complete, db_state, events, ret>>

\* loop_test with the test the wrong way round.
loop_test_inverted(flag) == IF flag THEN "poll" ELSE "exited"

\* loop_test with the flag not looked at.
loop_test_ignoring_flag(flag) == "poll"

\* Line 233: while not restore_complete[0].
loop_test(flag) == IF flag THEN "exited" ELSE "poll"

progress_monitor_check ==
    /\ monitor_thread = "check"
    /\ monitor_thread' = loop_test(restore_complete)
    /\ UNCHANGED <<file_only, params, pc, db_info, confirm, scan_i, backups_info,
                   scan_result, idx, calls, restore_command,
                   restore_complete, last_percent, progress_events,
                   db_state, events, result, ret>>

\* reportable without the comparison with the last percentage reported.
reportable_without_last(percent, last, interval) == percent >= interval

\* Line 251: the percentage is reported when it is at least one interval
\* above the last one reported.
reportable(percent, last, interval) == percent >= last + interval

\* after_poll with a failing query ending the thread.
after_poll_error_exits(row) == IF row = "error" THEN "exited" ELSE "check"

\* Lines 234-263: where the thread is after its query: in the except clause
\* of line 260 when the query raised, else at the loop test again.
after_poll(row) == IF row = "error" THEN "except" ELSE "check"

\* Lines 260-263: the except clause is inside the while loop: it logs the
\* error, and the thread sleeps and tests the flag again.
progress_monitor_except ==
    /\ monitor_thread = "except"
    /\ monitor_thread' = "check"
    /\ result' = thread_failure_effect(result)
    /\ UNCHANGED <<file_only, params, pc, db_info, confirm, scan_i,
                   backups_info, scan_result, idx, calls, restore_command,
                   restore_complete, last_percent, progress_events,
                   db_state, events, ret>>

\* Lines 234-263: one poll of sys.dm_exec_requests and, unless it raised,
\* the sleep after it.  The poll may raise (row "error": the query, or the
\* callback called at line 253, which then has not taken the report and
\* leaves last_percent as it was), show no row, or show a percentage.
progress_monitor_poll ==
    /\ monitor_thread = "poll"
    /\ \E row \in {"error", "none", "row"}, percent \in Percents :
          /\ IF row = "row"
                /\ reportable(percent, last_percent, stats_interval)
             THEN /\ progress_events' =
                       Append(progress_events, Percent(percent))
                  /\ last_percent' = percent
             ELSE UNCHANGED <<progress_events, last_percent>>
          /\ monitor_thread' = after_poll(row)
    /\ UNCHANGED <<file_only, params, pc, db_info, confirm, scan_i, backups_info,
                   scan_result, idx, calls, restore_command,
                   restore_complete, db_state, events, result, ret>>

\* ------------------------------------------- restore_database_from_file
\* Line 581: max_wait = 3600, and lines 586-587: each cycle of the progress
\* loop sleeps 2 seconds and adds 2 to waited.
max_wait == 3600

poll_period == 2

\* Line 635: max_retries = 30.
max_retries == 30

\* Line 604: the progress loop reports a percentage that is at least 5 above
\* the last one reported, whatever stats_interval is.
file_progress_step == 5

\* Lines 512-527: one (logical_name, target_path) pair per row of the file
\* list; with a restore_path the target is <database>_log.ldf when the
\* logical name contains "log" and <database>.mdf otherwise, without one it
\* is the file's own physical name.
file_moves(files) ==
    [k \in 1..Len(files) |->
       [logical |-> k,
        to |-> IF restore_path
               THEN (IF files[k] = "data_log" THEN "_log.ldf" ELSE ".mdf")
               ELSE "PhysicalName"]]

\* Lines 549-557: REPLACE when overwrite, STATS when stats_interval > 0,
\* and always RECOVERY.
file_options ==
    (IF overwrite THEN {"REPLACE"} ELSE {})
      \cup (IF stats_interval > 0 THEN {"STATS"} ELSE {})
      \cup {"RECOVERY"}

\* Lines 488-565: connect, RESTORE FILELISTONLY, the query whether the
\* database exists, SET SINGLE_USER when it does and overwrite is asked
\* for (a failure of that statement is swallowed), and restore_sql.  A
\* failing connect or query is caught at line 689; rows is empty at 500.
\* lists are the file lists RESTORE FILELISTONLY may answer with.
file_prepare_on(lists) ==
    /\ pc = "m_prepare"
    /\ \E out \in {"connect_error", "filelist_error", "no_rows",
                   "exists_error", "ok"},
          files \in lists,
          exists \in BOOLEAN, single_ok \in BOOLEAN :
          CASE out \in {"connect_error", "filelist_error", "exists_error"} ->
                 /\ result' = Failure("UnexpectedError")
                 /\ pc' = "m_finally"
                 /\ UNCHANGED <<db_exists, calls, restore_command>>
            [] out = "no_rows" ->
                 /\ result' = Failure("CouldNotReadFileList")
                 /\ pc' = "m_finally"
                 /\ UNCHANGED <<db_exists, calls, restore_command>>
            [] OTHER ->
                 /\ db_exists' = exists
                 /\ calls' =
                      IF overwrite /\ exists
                      THEN Append(calls,
                                  Call("SET SINGLE_USER", 0, 0, {}, <<>>,
                                       IF single_ok THEN "ok" ELSE "failed"))
                      ELSE calls
                 /\ restore_command' =
                      Call("RESTORE DATABASE", 0, 0, file_options,
                           file_moves(files), "running")
                 /\ pc' = "m_restore"
                 /\ result' = result
    /\ UNCHANGED <<folder_only, params, db_info, confirm, last_percent,
                   db_state, events, ret, waited, verify_i, verifier,
                   cleanup_state>>

file_prepare == file_prepare_on(MasterFileLists \ {<<>>})

\* The same step for a master file of a database of several files.
file_prepare_relocating == file_prepare_on(MasterRelocationFileLists)

\* An event of the file restore: every one carries percent_complete.
FileEvent(kind, p) == [kind |-> kind, percent_complete |-> p]

\* Lines 569-583: the callback gets 'Starting restore...' with 0 percent,
\* then cursor.execute(restore_sql) runs the restore to its end or raises
\* (caught at line 689); waited and last_percent start at 0.
file_restore ==
    /\ pc = "m_restore"
    /\ events' = Append(events, FileEvent("Starting restore", 0))
    /\ \E ok \in BOOLEAN :
          /\ calls' = Append(calls, [restore_command EXCEPT
                                       !.status = IF ok THEN "ok"
                                                  ELSE "failed"])
          /\ IF ok
             THEN pc' = "m_progress" /\ result' = result
             ELSE pc' = "m_finally" /\ result' = Failure("UnexpectedError")
    /\ waited' = 0
    /\ last_percent' = 0
    /\ UNCHANGED <<folder_only, params, db_info, confirm, restore_command,
                   db_state, ret, db_exists, verify_i, verifier,
                   cleanup_state>>

\* Lines 599-630: what one cycle of the progress loop decides from the
\* progress row (row "row" with its percentage), or without one from the
\* state of the target (s); a failing query (row or s "error") is swallowed.
progress_outcome(row, percent, s) ==
    CASE row = "row" -> IF percent >= 100 THEN "break" ELSE "continue"
      [] row = "none" ->
           (CASE s = "ONLINE" -> "break"
              [] s \in {"RESTORING", "absent", "error"} -> "continue"
              [] OTHER -> "break")
      [] OTHER -> "continue"

\* progress_loop_test with no limit on the time waited.
progress_loop_test_unbounded(w) == TRUE

\* Line 584: while waited < max_wait.
progress_loop_test(w) == w < max_wait

\* Lines 585-630: one cycle of the progress loop, and the loop test after
\* it.  waited is not read after the loop, and is set back to 0 when the
\* loop is left.
file_progress_poll ==
    /\ pc = "m_progress"
    /\ progress_loop_test(waited)
    /\ \E row \in {"error", "row", "none"}, percent \in FilePercents,
          s \in TargetStates \cup {"error"} :
          /\ IF row = "row" /\ percent >= last_percent + file_progress_step
             THEN /\ events' = Append(events, FileEvent("percent", percent))
                  /\ last_percent' = percent
             ELSE IF row = "none" /\ s = "ONLINE"
             THEN /\ events' =
                       Append(events, FileEvent("Restore complete", 100))
                  /\ last_percent' = last_percent
             ELSE UNCHANGED <<events, last_percent>>
          /\ IF \/ progress_outcome(row, percent, s) = "break"
                \/ ~progress_loop_test(waited + poll_period)
             THEN pc' = "m_verify" /\ waited' = 0
             ELSE pc' = pc /\ waited' = waited + poll_period
    /\ UNCHANGED <<folder_only, params, db_info, confirm, calls,
                   restore_command, db_state, result, ret, db_exists,
                   verify_i, verifier, cleanup_state>>

\* force_recovery_due with the command sent on every RESTORING poll.
force_recovery_due_every_poll(i) == TRUE

\* Line 651: RESTORE DATABASE ... WITH RECOVERY is sent on a RESTORING
\* observation when i == 0.
force_recovery_due(i) == i = 0

\* after_state with a state other than ONLINE and RESTORING retried.
after_state_retrying_unexpected(state, i) ==
    CASE state = "ONLINE" -> "online"
      [] state = "RESTORING" ->
           IF i < max_retries - 1 THEN "retry" ELSE "stuck"
      [] state = "absent" ->
           IF i < max_retries - 1 THEN "retry" ELSE "not_found"
      [] OTHER -> "retry"

\* after_state with RESTORING retried at the last iteration too.
after_state_never_stuck(state, i) ==
    CASE state = "ONLINE" -> "online"
      [] state = "RESTORING" -> "retry"
      [] state = "absent" ->
           IF i < max_retries - 1 THEN "retry" ELSE "not_found"
      [] state = "error" -> "retry"
      [] OTHER -> "unexpected"

\* after_state with an absent target given up on at once.
after_state_absent_fails(state, i) ==
    CASE state = "ONLINE" -> "online"
      [] state = "RESTORING" ->
           IF i < max_retries - 1 THEN "retry" ELSE "stuck"
      [] state = "absent" -> "not_found"
      [] state = "error" -> "retry"
      [] OTHER -> "unexpected"

\* Lines 641-682: what iteration i of the verification loop does with the
\* outcome of its state query; "error" is a query that raised (line 680).
after_state(state, i) ==
    CASE state = "ONLINE" -> "online"
      [] state = "RESTORING" ->
           IF i < max_retries - 1 THEN "retry" ELSE "stuck"
      [] state = "absent" ->
           IF i < max_retries - 1 THEN "retry" ELSE "not_found"
      [] state = "error" -> "retry"
      [] OTHER -> "unexpected"

\* The history of the verification loop after iteration i observed obs.
Observed(v, i, obs) ==
    [poll |-> i, last |-> obs,
     before |-> IF v.last = "none" THEN "none"
                ELSE IF v.before \in {"none", "all_restoring"}
                        /\ v.last = "RESTORING"
                THEN "all_restoring" ELSE "mixed",
     seen_restoring |-> v.seen_restoring \/ obs = "RESTORING"]

\* Lines 636-687: iteration i of the verification loop: the state query,
\* the explicit recovery (whose failure is swallowed), and the return, the
\* next iteration, or the end of the loop.
file_verify_poll ==
    /\ pc = "m_verify"
    /\ \E obs \in TargetStates \cup {"error"}, recovery_ok \in BOOLEAN :
          LET i == verify_i
              next == after_state(obs, i)
          IN  /\ verifier' = Observed(verifier, i, obs)
              /\ db_state' = IF obs = "error" THEN db_state ELSE obs
              /\ calls' =
                   IF obs = "RESTORING" /\ force_recovery_due(i)
                   THEN Append(calls,
                               Call("RESTORE WITH RECOVERY", i, 0,
                                    {"RECOVERY"}, <<>>,
                                    IF recovery_ok THEN "ok" ELSE "failed"))
                   ELSE calls
              /\ events' =
                   IF next = "online"
                   THEN Append(events, FileEvent("Database ONLINE", 100))
                   ELSE events
              /\ CASE next = "online" ->
                        /\ result' = Success("DatabaseRestored", <<>>)
                        /\ pc' = "m_finally"
                        /\ verify_i' = i
                   [] next = "stuck" ->
                        /\ result' = Failure("StuckInRestoring")
                        /\ pc' = "m_finally"
                        /\ verify_i' = i
                   [] next = "unexpected" ->
                        /\ result' = Failure("UnexpectedState")
                        /\ pc' = "m_finally"
                        /\ verify_i' = i
                   [] next = "not_found" ->
                        /\ result' = Failure("NotFoundAfterRestore")
                        /\ pc' = "m_finally"
                        /\ verify_i' = i
                   [] OTHER ->
                        IF i + 1 < max_retries
                        THEN /\ verify_i' = i + 1
                             /\ UNCHANGED <<pc, result>>
                        ELSE /\ result' = Failure("FailedToVerify")
                             /\ pc' = "m_finally"
                             /\ verify_i' = i
    /\ UNCHANGED <<folder_only, params, db_info, confirm, restore_command,
                   last_percent, ret, db_exists, waited, cleanup_state>>

\* multi_user_due with the state of the target not looked at.
multi_user_due_always(s) == TRUE

\* Line 699: if db_state and db_state[0] == 'ONLINE'.
multi_user_due(s) == s = "ONLINE"

\* Lines 693-712: when overwrite was asked for and the database existed,
\* the state is queried once more and SET MULTI_USER is sent if it is
\* ONLINE; a failure of either statement is swallowed.
file_finally ==
    /\ pc = "m_finally"
    /\ IF overwrite /\ db_exists
       THEN \E s \in TargetStates \cup {"error"}, multi_ok \in BOOLEAN :
               /\ cleanup_state' = s
               /\ calls' =
                    IF multi_user_due(s)
                    THEN Append(calls,
                                Call("SET MULTI_USER", 0, 0, {}, <<>>,
                                     IF multi_ok THEN "ok" ELSE "failed"))
                    ELSE calls
       ELSE UNCHANGED <<cleanup_state, calls>>
    /\ pc' = IF caller = "master" THEN "r_result" ELSE "done"
    /\ UNCHANGED <<folder_only, params, db_info, confirm, restore_command,
                   last_percent, db_state, events, result, ret, db_exists,
                   waited, verify_i, verifier>>

\* ------------------------------------------------------------ purge_years
\* set(a_list): the years a list names.
YearSet(l) == {l[k] : k \in 1..Len(l)}

\* years_to_purge with the years to keep not taken out.
years_to_purge_all(cfg) == YearSet(cfg.PARTITION_YEARS)

\* Line 1233: YEARS_TO_PURGE = list(set(PARTITION_YEARS) -
\* set(REQUIRED_BACKUP_YEAR)).
years_to_purge(cfg) ==
    YearSet(cfg.PARTITION_YEARS) \ YearSet(cfg.REQUIRED_BACKUP_YEAR)

\* A step of a pipeline that has returned (ok) or raised.
Step(name, ok) == [name |-> name, ok |-> ok]

\* A remote call of purge_years: its connect, or the purge batch of a year.
PurgeCall(op, year, ok) == [op |-> op, year |-> year, ok |-> ok]

\* The years whose purge batch has been sent.
purged_years ==
    {purge_log[k].year : k \in {j \in 1..Len(purge_log) :
                                   purge_log[j].op = "purge"}}

\* The local variables of restoration(), of the driver it called and of
\* scan_backup_folder, and the record of what the restore request sent to
\* the engine and to the callback from the main thread.
restoration_locals ==
    <<db_info, confirm, scan_i, backups_info, scan_result, idx,
      restore_command, db_state, result, ret, db_exists, waited, verify_i,
      verifier, cleanup_state, calls, events>>

\* What else the drivers and restoration() own: the configuration and the
\* monitor thread.
restoration_shared ==
    <<overwrite, restore_path, stats_interval, folder_exists, backup_files,
      restore_complete, monitor_thread, last_percent, progress_events>>

\* No step of main, of a pipeline or of purge_years writes either.
driver_state == <<restoration_locals, restoration_shared>>

\* Lines 1233-1242: the years to purge; none: return without a connection;
\* otherwise connect, which may raise.
purge_years_start ==
    /\ pc = "p_purge"
    /\ \E py \in YearLists, ry \in RequiredYearLists,
          connect_ok \in BOOLEAN :
          LET cfg == [PARTITION_YEARS |-> py, REQUIRED_BACKUP_YEAR |-> ry]
          IN  /\ purge_config' = cfg
              /\ IF years_to_purge(cfg) = {}
                 THEN /\ purge_log' = purge_log
                      /\ steps' = Append(steps, Step("purge_years", TRUE))
                      /\ pc' = "p_step"
                      /\ pipeline_ret' = pipeline_ret
                 ELSE /\ purge_log' =
                           <<PurgeCall("connect", 0, connect_ok)>>
                      /\ IF connect_ok
                         THEN /\ pc' = "p_purge_year"
                              /\ UNCHANGED <<steps, pipeline_ret>>
                         ELSE /\ steps' =
                                   Append(steps, Step("purge_years", FALSE))
                              /\ pipeline_ret' = "False"
                              /\ pc' = "main_return"
    /\ UNCHANGED <<caller, driver_state, choice, verify, master_bkp_flag,
                   exit_status>>

\* Lines 1244-1306: the purge batch of the next year of YEARS_TO_PURGE, in
\* the order the set happens to list them; a batch that raises ends
\* purge_years (lines 1310-1317 re-raise).
purge_years_year ==
    /\ pc = "p_purge_year"
    /\ \E year \in years_to_purge(purge_config) \ purged_years,
          ok \in BOOLEAN :
          /\ purge_log' = Append(purge_log, PurgeCall("purge", year, ok))
          /\ IF ~ok
             THEN /\ steps' = Append(steps, Step("purge_years", FALSE))
                  /\ pipeline_ret' = "False"
                  /\ pc' = "main_return"
             ELSE IF years_to_purge(purge_config) \ purged_years = {year}
             THEN /\ steps' = Append(steps, Step("purge_years", TRUE))
                  /\ pc' = "p_step"
                  /\ pipeline_ret' = pipeline_ret
             ELSE UNCHANGED <<steps, pc, pipeline_ret>>
    /\ UNCHANGED <<caller, driver_state, choice, verify, master_bkp_flag,
                   purge_config, exit_status>>

\* ------------------------------------------- main, from_scratch, from_master
\* Lines 1482-1505: the steps of from_scratch in the order of its
\* statements; create_master_backup only when the operator asked for it.
from_scratch_steps(flag) ==
    <<"restoration", "prepare_database", "create_partitions",
      "create_indexes", "create_temp_tables">>
      \o (IF flag = "y" THEN <<"create_master_backup">> ELSE <<>>)
      \o <<"purge_years", "yearly_backup">>

\* Lines 1559-1575: the steps of from_master.
from_master_steps ==
    <<"restoration", "set_recovery_simple", "purge_years", "yearly_backup">>

pipeline_steps ==
    IF choice = "1" THEN from_scratch_steps(master_bkp_flag)
    ELSE from_master_steps

\* Line 1605: int(input(...)).  "x" is an entry int() rejects: the
\* ValueError is caught nowhere and the interpreter exits with status 1.
\* "3" is a number other than 1 and 2.
main_input ==
    /\ pc = "main"
    /\ \E ch \in {"1", "2", "3", "x"} :
          /\ choice' = ch
          /\ CASE ch \in {"1", "2"} ->
                    pc' = "p_verify" /\ exit_status' = exit_status
               [] ch = "x" -> pc' = "exited" /\ exit_status' = 1
               [] OTHER -> pc' = "main_return" /\ exit_status' = exit_status
    /\ UNCHANGED <<caller, driver_state, verify, master_bkp_flag, steps,
                   purge_config, purge_log, pipeline_ret>>

\* Lines 1475-1478 and 1553-1556: anything but 'y' returns None.  After
\* 'y' from_master calls restoration('MASTER').
pipeline_verify ==
    /\ pc = "p_verify"
    /\ \E v \in {"y", "n"} :
          /\ verify' = v
          /\ IF v # "y"
             THEN /\ pipeline_ret' = "None"
                  /\ pc' = "main_return"
                  /\ caller' = caller
             ELSE IF choice = "1"
             THEN /\ pc' = "p_flag"
                  /\ UNCHANGED <<pipeline_ret, caller>>
             ELSE /\ pc' = "r_info"
                  /\ caller' = "master"
                  /\ pipeline_ret' = pipeline_ret
    /\ UNCHANGED <<driver_state, choice, master_bkp_flag, steps,
                   purge_config, purge_log, exit_status>>

\* Lines 1480-1483: master_bkp_flag = input(...), then
\* restoration('SCRATCH').
from_scratch_flag ==
    /\ pc = "p_flag"
    /\ \E f \in {"y", "n"} : master_bkp_flag' = f
    /\ caller' = "restoration"
    /\ pc' = "r_info"
    /\ UNCHANGED <<driver_state, choice, verify, steps, purge_config,
                   purge_log, pipeline_ret, exit_status>>

\* after_restoration with the value restoration() returned not looked at.
after_restoration_ignored(r) == "next"

\* Lines 1483 and 1559: if not restoration(...): return False.
after_restoration(r) == IF r = "True" THEN "next" ELSE "abort"

\* restoration() has returned to the pipeline: its local variables and
\* those of the functions it called are gone, and the record of the restore
\* request is closed.
pipeline_restored ==
    /\ pc = "done"
    /\ choice \in {"1", "2"}
    /\ steps = <<>>
    /\ steps' = <<Step("restoration", ret = "True")>>
    /\ IF after_restoration(ret) = "abort"
       THEN pipeline_ret' = "False" /\ pc' = "main_return"
       ELSE pipeline_ret' = pipeline_ret /\ pc' = "p_step"
    /\ db_info' = "none"
    /\ confirm' = "none"
    /\ scan_i' = 1
    /\ backups_info' = <<>>
    /\ scan_result' = NoResult
    /\ idx' = 0
    /\ restore_command' = Call("none", 0, 0, {}, <<>>, "none")
    /\ db_state' = "unobserved"
    /\ result' = NoResult
    /\ ret' = "none"
    /\ db_exists' = FALSE
    /\ waited' = 0
    /\ verify_i' = 0
    /\ verifier' = NoObservation
    /\ cleanup_state' = "unobserved"
    /\ calls' = <<>>
    /\ events' = <<>>
    /\ UNCHANGED <<caller, restoration_shared, choice, verify,
                   master_bkp_flag, purge_config, purge_log, exit_status>>

\* The next statement of the pipeline: a step, which returns or raises (the
\* except clauses at 1516-1529 and 1584-1597 return False), the call of
\* purge_years, or return True after the last step.
pipeline_step ==
    /\ pc = "p_step"
    /\ IF Len(steps) = Len(pipeline_steps)
       THEN /\ pipeline_ret' = "True"
            /\ pc' = "main_return"
            /\ steps' = steps
       ELSE LET name == pipeline_steps[Len(steps) + 1]
            IN  IF name = "purge_years"
                THEN /\ pc' = "p_purge"
                     /\ UNCHANGED <<steps, pipeline_ret>>
                ELSE \E ok \in BOOLEAN :
                        /\ steps' = Append(steps, Step(name, ok))
                        /\ IF ok
                           THEN UNCHANGED <<pc, pipeline_ret>>
                           ELSE /\ pipeline_ret' = "False"
                                /\ pc' = "main_return"
    /\ UNCHANGED <<caller, driver_state, choice, verify, master_bkp_flag,
                   purge_config, purge_log, exit_status>>

\* Lines 1606-1611: main calls the pipeline and has no return statement:
\* it returns None whatever the pipeline returned.
main_returns(r) == "None"

\* Line 1614: exit(0 if main() else 1).
exit_code(m) == IF m = "True" THEN 0 ELSE 1

main_return ==
    /\ pc = "main_return"
    /\ exit_status' = exit_code(main_returns(pipeline_ret))
    /\ pc' = "exited"
    /\ UNCHANGED <<caller, driver_state, choice, verify, master_bkp_flag,
                   steps, purge_config, purge_log, pipeline_ret>>

Next ==
    \/ restoration_get_database_info
    \/ restoration_confirm
    \/ kill_database_connections
    \/ scan_backup_folder_enumerate
    \/ scan_backup_folder_connect
    \/ scan_backup_folder_read_header
    \/ scan_backup_folder_resolve
    \/ folder_after_scan
    \/ folder_build_command
    \/ folder_execute
    \/ folder_execute_return
    \/ folder_final_state
    \/ folder_finally
    \/ restoration_return
    \/ progress_monitor_connect
    \/ progress_monitor_check
    \/ progress_monitor_poll
    \/ progress_monitor_except

Spec == Init /\ [][Next]_vars

NextScan ==
    \/ scan_backup_folder_enumerate
    \/ scan_backup_folder_connect
    \/ scan_backup_folder_read_header
    \/ scan_backup_folder_resolve

SpecScan == InitScan /\ [][NextScan]_vars

\* restoration('MASTER'), which passes overwrite=True, the configured
\* restore_path and stats_interval=5, or restore_database_from_file called
\* with an overwrite of the caller's choice, no restore_path and the
\* default stats_interval.
InitFile ==
    /\ caller \in {"master", "file"}
    /\ overwrite \in BOOLEAN
    /\ restore_path \in BOOLEAN
    /\ stats_interval \in {5, 10}
    /\ caller = "master" =>
          overwrite /\ restore_path /\ stats_interval = 5
    /\ caller = "file" => ~restore_path /\ stats_interval = 10
    /\ folder_exists = FALSE
    /\ backup_files = <<>>
    /\ pc = IF caller = "master" THEN "r_info" ELSE "m_prepare"
    /\ Start

NextFile ==
    \/ restoration_get_database_info
    \/ restoration_confirm
    \/ kill_database_connections
    \/ file_prepare
    \/ file_restore
    \/ file_progress_poll
    \/ file_verify_poll
    \/ file_finally
    \/ restoration_return

SpecFile == InitFile /\ [][NextFile]_vars

\* restore_database_from_file called on its own with overwrite, without a
\* restore_path and with the default stats_interval.
InitPoll ==
    /\ caller = "file"
    /\ overwrite = TRUE
    /\ restore_path = FALSE
    /\ stats_interval = 10
    /\ folder_exists = FALSE
    /\ backup_files = <<>>
    /\ pc = "m_prepare"
    /\ Start

NextPoll ==
    \/ file_prepare
    \/ file_restore
    \/ file_progress_poll
    \/ file_verify_poll
    \/ file_finally

\* The thread that runs the file restore keeps running, and each of its
\* calls of the engine returns or raises.
SpecPoll == InitPoll /\ [][NextPoll]_vars /\ WF_vars(NextPoll)

\* Either driver called on its own with overwrite, without a restore_path,
\* and with a stats_interval of the caller's choice: the requests whose
\* progress reports are compared.
InitProgress ==
    /\ caller \in {"direct", "file"}
    /\ overwrite = TRUE
    /\ restore_path = FALSE
    /\ stats_interval \in {5, 10}
    /\ folder_exists \in BOOLEAN
    /\ backup_files \in DriverFolders
    /\ ~folder_exists => backup_files = <<>>
    /\ caller = "file" => ~folder_exists
    /\ pc = IF caller = "file" THEN "m_prepare" ELSE "f_scan"
    /\ Start

NextProgress ==
    \/ scan_backup_folder_enumerate
    \/ scan_backup_folder_connect
    \/ scan_backup_folder_read_header
    \/ scan_backup_folder_resolve
    \/ folder_after_scan
    \/ folder_build_command
    \/ folder_execute
    \/ folder_execute_return
    \/ folder_final_state
    \/ folder_finally
    \/ progress_monitor_connect
    \/ progress_monitor_check
    \/ progress_monitor_poll
    \/ progress_monitor_except
    \/ file_prepare
    \/ file_restore
    \/ file_progress_poll
    \/ file_verify_poll
    \/ file_finally

SpecProgress == InitProgress /\ [][NextProgress]_vars

\* restore_database_from_folder called on its own on a folder that holds
\* the full backup alone or the full backup and one log backup.
InitJoin ==
    /\ caller = "direct"
    /\ overwrite = TRUE
    /\ restore_path = FALSE
    /\ stats_interval = 10
    /\ folder_exists = TRUE
    /\ backup_files \in
          {<<Header("ok", 1, 100, 100, 100)>>,
           <<Header("ok", 1, 100, 100, 100), Header("ok", 2, 100, 100, 150)>>}
    /\ pc = "f_scan"
    /\ Start

\* The steps of the thread that runs restore_database_from_folder.
DriverNext ==
    \/ scan_backup_folder_enumerate
    \/ scan_backup_folder_connect
    \/ scan_backup_folder_read_header
    \/ scan_backup_folder_resolve
    \/ folder_after_scan
    \/ folder_build_command
    \/ folder_execute
    \/ folder_execute_return
    \/ folder_final_state
    \/ folder_finally

\* The steps of the thread that runs progress_monitor.
MonitorNext ==
    \/ progress_monitor_connect
    \/ progress_monitor_check
    \/ progress_monitor_poll
    \/ progress_monitor_except

NextJoin == DriverNext \/ MonitorNext

\* The driver's thread keeps running and its remote calls return; nothing
\* is assumed about the monitor's thread.
SpecJoin == InitJoin /\ [][NextJoin]_vars /\ WF_vars(DriverNext)

\* Both threads keep running: the monitor's connect, query, callback and
\* sleep return or raise as well.
SpecStop ==
    InitJoin /\ [][NextJoin]_vars /\ WF_vars(DriverNext) /\ WF_vars(MonitorNext)

\* restore_database_from_folder called on its own, with overwrite, without
\* a restore_path and with a stats_interval of the caller's choice, on any
\* of the folders: the two threads of one request.
InitMonitor ==
    /\ caller = "direct"
    /\ overwrite = TRUE
    /\ restore_path = FALSE
    /\ stats_interval \in {5, 10}
    /\ folder_exists \in BOOLEAN
    /\ backup_files \in DriverFolders
    /\ ~folder_exists => backup_files = <<>>
    /\ pc = "f_scan"
    /\ Start

SpecMonitor == InitMonitor /\ [][NextJoin]_vars

\* The folder of scenario A and the folders of its first files.
ScenarioAFolders ==
    LET A == <<Header("ok", 1, 100, 100, 100), Header("ok", 2, 100, 100, 150),
               Header("ok", 2, 150, 150, 200)>>
    IN  {SubSeq(A, 1, n) : n \in 1..3}

\* Either driver called on its own with overwrite and a restore_path, for
\* a database of several files.
InitRelocate ==
    /\ caller \in {"direct", "file"}
    /\ overwrite = TRUE
    /\ restore_path = TRUE
    /\ stats_interval = 10
    /\ folder_exists = (caller = "direct")
    /\ backup_files \in
          (IF caller = "direct" THEN ScenarioAFolders ELSE {<<>>})
    /\ pc = IF caller = "file" THEN "m_prepare" ELSE "f_scan"
    /\ Start

NextRelocate ==
    \/ scan_backup_folder_enumerate
    \/ scan_backup_folder_connect
    \/ scan_backup_folder_read_header
    \/ scan_backup_folder_resolve
    \/ folder_after_scan
    \/ folder_build_command_relocating
    \/ folder_execute
    \/ folder_execute_return
    \/ folder_final_state
    \/ folder_finally
    \/ progress_monitor_connect
    \/ progress_monitor_check
    \/ progress_monitor_poll
    \/ progress_monitor_except
    \/ file_prepare_relocating
    \/ file_restore
    \/ file_progress_poll
    \/ file_verify_poll
    \/ file_finally

SpecRelocate == InitRelocate /\ [][NextRelocate]_vars

\* The script run from main: the restore parameters are those restoration()
\* passes, the folder that of scenario A.
InitMain ==
    /\ caller = "main"
    /\ overwrite = TRUE
    /\ restore_path = TRUE
    /\ stats_interval = 5
    /\ folder_exists = TRUE
    /\ backup_files \in {f \in ScenarioAFolders : Len(f) = 3}
    /\ pc = "main"
    /\ Start

NextMain ==
    \/ main_input
    \/ pipeline_verify
    \/ from_scratch_flag
    \/ restoration_get_database_info
    \/ restoration_confirm
    \/ kill_database_connections
    \/ scan_backup_folder_enumerate
    \/ scan_backup_folder_connect
    \/ scan_backup_folder_read_header
    \/ scan_backup_folder_resolve
    \/ folder_after_scan
    \/ folder_build_command
    \/ folder_execute
    \/ folder_execute_return
    \/ folder_final_state
    \/ folder_finally
    \/ progress_monitor_connect
    \/ progress_monitor_check
    \/ progress_monitor_poll
    \/ progress_monitor_except
    \/ file_prepare
    \/ file_restore
    \/ file_progress_poll
    \/ file_verify_poll
    \/ file_finally
    \/ restoration_return
    \/ pipeline_restored
    \/ pipeline_step
    \/ purge_years_start
    \/ purge_years_year
    \/ main_return

SpecMain == InitMain /\ [][NextMain]_vars

\* ================================================================= claims
IsRestore(c) == c.op \in {"RESTORE DATABASE", "RESTORE LOG"}

\* The restore commands issued so far, in order.
restore_calls == SelectSeq(calls, IsRestore)

\* The recovery state a restore command leaves the target in: the engine
\* recovers the database unless the command says NORECOVERY.
RecoveryState(c) ==
    IF "NORECOVERY" \in c.flags THEN "NoRecovery" ELSE "Recovery"

\* The driver has returned.
DriverReturned == pc \in {"r_result", "done"} /\ result.done

\* Positions of the listing whose header can be read.
ValidFiles == {i \in 1..Len(backup_files) : backup_files[i].out = "ok"}

ValidFulls == {i \in ValidFiles : backup_files[i].BackupType = 1}

ValidLogs == {i \in ValidFiles : backup_files[i].BackupType = 2}

\* scan_backup_folder has returned after reading the headers.
HeadersRead ==
    /\ pc = "f_scanned"
    /\ scan_result.done
    /\ scan_result.msg \notin {"FolderNotFound", "ErrorScanningFolder",
                               "NoBackupFilesFound",
                               "DatabaseErrorReadingHeaders"}

\* The chain holds one of the valid full backups and then every valid log
\* backup once.
ChainOfValidFiles(c) ==
    /\ Len(c) = 1 + Cardinality(ValidLogs)
    /\ c[1].FilePath \in ValidFulls
    /\ {c[k].FilePath : k \in 2..Len(c)} = ValidLogs
    /\ \A k \in 1..Len(c) :
          c[k] = InfoDict(backup_files[c[k].FilePath], c[k].FilePath)

\* The full backup at the head of the chain has the greatest checkpoint.
MaxCheckpointFirst(c) ==
    \A i \in ValidFulls :
       backup_files[i].CheckpointLSN <= c[1].CheckpointLSN

\* C1: every restore command issued for a chain of n artifacts leaves the
\* target in NoRecovery, except the command of step n-1, which recovers it;
\* the only command of a chain of one recovers it.
C1_RecoveryOnLastStepOnly ==
    \A k \in 1..Len(restore_calls) :
       (RecoveryState(restore_calls[k]) = "Recovery")
          <=> (restore_calls[k].idx = Len(chain) - 1)

\* A chain of three was applied to the end.
C1_Witness ==
    /\ DriverReturned /\ result.success
    /\ Len(chain) = 3
    /\ Len(restore_calls) = 3
    /\ RecoveryState(restore_calls[1]) = "NoRecovery"
    /\ RecoveryState(restore_calls[3]) = "Recovery"

\* C2 as stated: the full backup with the greatest checkpoint comes first
\* and the log backups follow in strictly ascending FirstLSN.
C2_StrictlyAscendingLogs ==
    (HeadersRead /\ scan_result.success) =>
       LET c == scan_result.chain
       IN  /\ ChainOfValidFiles(c)
           /\ MaxCheckpointFirst(c)
           /\ \A j, k \in 2..Len(c) :
                 j < k => c[j].FirstLSN < c[k].FirstLSN

\* C2 as amended: the full backup with the greatest checkpoint comes first
\* and the log backups follow in ascending FirstLSN, log backups with the
\* same FirstLSN next to each other.
C2_AscendingLogs ==
    (HeadersRead /\ scan_result.success) =>
       LET c == scan_result.chain
       IN  /\ ChainOfValidFiles(c)
           /\ MaxCheckpointFirst(c)
           /\ \A j, k \in 2..Len(c) :
                 j < k => c[j].FirstLSN <= c[k].FirstLSN

\* Two full backups with different checkpoints, the older one read first,
\* and two log backups read in descending FirstLSN.
C2_Witness ==
    /\ HeadersRead /\ scan_result.success
    /\ \E i, j \in ValidFulls :
          /\ i < j
          /\ backup_files[i].CheckpointLSN < backup_files[j].CheckpointLSN
    /\ \E i, j \in ValidLogs :
          i < j /\ backup_files[i].FirstLSN > backup_files[j].FirstLSN

\* C3: in every chain the scan returns, the checkpoint of the full backup is
\* at most the FirstLSN of every log backup.
C3_ChainContinuity ==
    (HeadersRead /\ scan_result.success) =>
       \A k \in 2..Len(scan_result.chain) :
          scan_result.chain[1].CheckpointLSN
             <= scan_result.chain[k].FirstLSN

\* C4: when the headers read hold no full backup, the scan fails with the
\* no-full-backup error and returns no chain, whatever log backups it read.
C4_NoFullBackupFails ==
    (HeadersRead /\ ValidFiles # {} /\ ValidFulls = {}) =>
       /\ ~scan_result.success
       /\ scan_result.msg = "NoFullBackupPresent"
       /\ scan_result.chain = <<>>

\* The scan read log backups only.
C4_Witness ==
    /\ HeadersRead
    /\ ValidFulls = {}
    /\ Cardinality(ValidLogs) >= 2
    /\ scan_result.msg = "NoFullBackupPresent"

\* C5: a restore command that failed is the last call the driver issued, and
\* the driver is on its way out with an error.
C5_FailedStepAborts ==
    \A k \in 1..Len(calls) :
       (IsRestore(calls[k]) /\ calls[k].status = "failed") =>
          /\ k = Len(calls)
          /\ pc \in {"f_finally", "r_result", "done"}
          /\ result.done /\ ~result.success

\* The first of three steps failed and the driver returned.
C5_Witness ==
    /\ DriverReturned /\ ~result.success
    /\ Len(chain) = 3
    /\ Len(restore_calls) = 1
    /\ restore_calls[1].status = "failed"

\* C6: when the restore fails because the folder holds no backup file, no
\* readable header or no full backup, no mutating call was issued.
C6_NoMutatingCallBeforeDiscoveryFailure ==
    (result.done /\ ~result.success
       /\ result.msg \in {"NoBackupFilesFound", "NoValidHeadersReadable",
                          "NoFullBackupPresent"})
       => calls = <<>>

\* C7: a restore that reports success has last observed the target ONLINE.
C7_SuccessImpliesOnline ==
    (result.done /\ result.success) => db_state = "ONLINE"

\* The folder of scenario A, in any order of enumeration, restored with
\* overwrite.
ScenarioA ==
    /\ overwrite
    /\ Len(backup_files) = 3
    /\ \E f, l1, l2 \in 1..3 :
          /\ backup_files[f] = Header("ok", 1, 100, 100, 100)
          /\ backup_files[l1] = Header("ok", 2, 100, 100, 150)
          /\ backup_files[l2] = Header("ok", 2, 150, 150, 200)

\* What tells one restore command of scenario A from another.
CommandShape(c) ==
    <<c.op, backup_files[c.path].FirstLSN, backup_files[c.path].LastLSN,
      c.flags \ {"STATS"}>>

ScenarioACommands ==
    <<<<"RESTORE DATABASE", 100, 100, {"REPLACE", "NORECOVERY"}>>,
      <<"RESTORE LOG", 100, 150, {"NORECOVERY"}>>,
      <<"RESTORE LOG", 150, 200, {"RECOVERY"}>>>>

\* C8: in scenario A the chain is the full backup, the log 100-150 and the
\* log 150-200; the restore commands issued are the first commands of
\* REPLACE+NORECOVERY, NORECOVERY, RECOVERY, each issued after the one
\* before it returned, and all three have been issued when the driver
\* reports success.
C8_ScenarioA ==
    ScenarioA =>
       /\ scan_result.success =>
             [k \in 1..Len(chain) |->
                <<chain[k].BackupType, chain[k].FirstLSN, chain[k].LastLSN>>]
               = <<<<1, 100, 100>>, <<2, 100, 150>>, <<2, 150, 200>>>>
       /\ Len(restore_calls) <= 3
       /\ \A k \in 1..Len(restore_calls) :
             /\ CommandShape(restore_calls[k]) = ScenarioACommands[k]
             /\ restore_calls[k].idx = k - 1
             /\ k < Len(restore_calls) => restore_calls[k].status = "ok"
       /\ (result.done /\ result.success) => Len(restore_calls) = 3

\* Scenario A restored to the end, from a folder that lists the second log
\* before the first.
C8_Witness ==
    /\ ScenarioA
    /\ DriverReturned /\ result.success
    /\ Len(restore_calls) = 3
    /\ backup_files[1].FirstLSN = 150

\* C9: a restore command carries REPLACE only if it is the RESTORE DATABASE
\* command of step 0 and overwrite was requested.
C9_ReplaceOnFirstStepOnly ==
    \A k \in 1..Len(restore_calls) :
       "REPLACE" \in restore_calls[k].flags =>
          /\ overwrite
          /\ restore_calls[k].idx = 0
          /\ restore_calls[k].op = "RESTORE DATABASE"

\* Without overwrite a chain of three was applied to the end.
C9_Witness ==
    /\ ~overwrite
    /\ DriverReturned /\ result.success
    /\ Len(restore_calls) = 3

\* C10: when the headers have been read, backups_info holds the header of
\* every readable file, in the order of the listing, and nothing else; and
\* when a full backup is among them the scan succeeds with a chain of one
\* of the readable full backups and every readable log backup.
C10_UnreadableFileSkipped ==
    HeadersRead =>
       /\ Len(backups_info) = Cardinality(ValidFiles)
       /\ \A k \in 1..Len(backups_info) :
             /\ backups_info[k].FilePath \in ValidFiles
             /\ backups_info[k]
                  = InfoDict(backup_files[backups_info[k].FilePath],
                             backups_info[k].FilePath)
             /\ k > 1 => backups_info[k - 1].FilePath < backups_info[k].FilePath
       /\ ValidFulls # {} =>
             /\ scan_result.success
             /\ ChainOfValidFiles(scan_result.chain)

\* One unreadable file, read before the three readable ones.
C10_Witness ==
    /\ HeadersRead /\ scan_result.success
    /\ Cardinality(ValidFiles) = 3
    /\ Len(backup_files) = 4
    /\ backup_files[1].out # "ok"
    /\ Len(scan_result.chain) = 3

\* --------------------------------------------- verification loop claims
\* The explicit recovery commands the verification loop has sent.
recovery_calls == SelectSeq(calls, LAMBDA c : c.op = "RESTORE WITH RECOVERY")

\* The verification loop has run and is over.
VerifierReturned == pc \in {"m_finally", "r_result", "done"} /\ verifier.poll >= 0

\* C11: the explicit recovery command is sent at the first poll that
\* observes RESTORING, whichever poll that is, and at most once: as soon
\* as RESTORING has been observed exactly one such command has been sent,
\* and none before.
C11_ForceRecoveryOnFirstRestoring ==
    Len(recovery_calls) = IF verifier.seen_restoring THEN 1 ELSE 0

\* The verification loop observed RESTORING at polls 0, 1, 2 and ONLINE at
\* poll 3.
ScenarioC ==
    /\ verifier.poll = 3
    /\ verifier.last = "ONLINE"
    /\ verifier.before = "all_restoring"

\* C12: scenario C returns success with exactly one explicit recovery
\* command, sent at the first RESTORING observation (poll 0).
C12_ScenarioC ==
    ScenarioC =>
       /\ result.done /\ result.success
       /\ Len(recovery_calls) = 1
       /\ recovery_calls[1].idx = 0

C12_Witness ==
    /\ ScenarioC
    /\ pc = "done"
    /\ result.success
    /\ Len(recovery_calls) = 1

\* Every poll of the verification loop, up to its last iteration, observed
\* RESTORING.
ScenarioD ==
    /\ verifier.poll = max_retries - 1
    /\ verifier.last = "RESTORING"
    /\ verifier.before = "all_restoring"

\* C13 as stated: scenario D returns the stuck-in-RESTORING error and the
\* state of the target is not queried again after the bound.
C13_NoStateQueryAfterBound ==
    ScenarioD =>
       /\ result = Failure("StuckInRestoring")
       /\ cleanup_state = "unobserved"

\* C13: scenario D returns the stuck-in-RESTORING error and the
\* verification loop polls no more after its last iteration; the state is
\* read once more only by the cleanup, and only when overwrite was asked
\* for and the database existed before the restore.
C13_ScenarioD ==
    /\ verifier.poll < max_retries
    /\ ScenarioD =>
          /\ result = Failure("StuckInRestoring")
          /\ VerifierReturned
          /\ verify_i = max_retries - 1
          /\ cleanup_state # "unobserved" =>
                overwrite /\ db_exists /\ pc \in {"r_result", "done"}

C13_Witness ==
    /\ ScenarioD
    /\ pc = "done"
    /\ result = Failure("StuckInRestoring")
    /\ cleanup_state = "RESTORING"

\* C14: a poll that observes a state other than ONLINE and RESTORING ends
\* the verification with the unexpected-state error at once: the loop is
\* left, and no explicit recovery command is sent at or after that poll.
C14_UnexpectedStateFailsImmediately ==
    verifier.last = "SUSPECT" =>
       /\ result = Failure("UnexpectedState")
       /\ VerifierReturned
       /\ verify_i = verifier.poll
       /\ \A k \in 1..Len(recovery_calls) :
             recovery_calls[k].idx < verifier.poll

C14_Witness ==
    /\ verifier.last = "SUSPECT"
    /\ verifier.poll > 0
    /\ Len(recovery_calls) = 1
    /\ pc = "done"

\* C15: an absent target is retried up to the bound of the loop: an absent
\* observation before the last iteration goes on to the next poll, one at
\* the last iteration fails with the not-found error, and that error is
\* returned in no other case.
C15_AbsentRetriedToBound ==
    /\ (verifier.last = "absent" /\ verifier.poll < max_retries - 1) =>
          /\ pc = "m_verify"
          /\ ~result.done
          /\ verify_i = verifier.poll + 1
    /\ (verifier.last = "absent" /\ verifier.poll = max_retries - 1) =>
          result = Failure("NotFoundAfterRestore")
    /\ result = Failure("NotFoundAfterRestore") =>
          verifier.last = "absent" /\ verifier.poll = max_retries - 1

C15_Witness ==
    /\ result = Failure("NotFoundAfterRestore")
    /\ verifier.before = "mixed"
    /\ pc = "done"


\* ------------------------------------------------------ progress claims
\* The events of the request that carry percent_complete, in the order the
\* callback got them: every event of the file restore, and the percentage
\* reports of the monitor of the folder restore.
percent_events ==
    IF caller \in {"master", "file"}
    THEN events
    ELSE SelectSeq(progress_events, LAMBDA e : e.kind = "percent")

\* The percentages read from sys.dm_exec_requests that were reported.
polled_percents ==
    LET pe == SelectSeq(events \o progress_events,
                        LAMBDA e : e.kind = "percent")
    IN  [k \in 1..Len(pe) |-> pe[k].percent_complete]

\* C16: the percentages of the successive events that carry
\* percent_complete never decrease within one restore request.
C16_PercentNonDecreasing ==
    \A k \in 1..(Len(percent_events) - 1) :
       percent_events[k].percent_complete
          <= percent_events[k + 1].percent_complete

C16_Witness ==
    /\ caller = "direct"
    /\ stats_interval = 5
    /\ polled_percents = <<5, 10>>
    /\ pc = "done"

\* C17: a polled percentage is reported only when it is at least
\* stats_interval above the last one reported (0 before the first report).
C17_PercentEventsIntervalApart ==
    LET p == <<0>> \o polled_percents
    IN  \A k \in 1..(Len(p) - 1) : p[k + 1] - p[k] >= stats_interval


\* An event that carries the key 'error'.
IsErrorEvent(e) == e.kind = "MonitorError"

\* C18: every restore request has delivered a terminal event to the
\* callback when it returns: 'COMPLETED', or an event that carries an
\* error.
C18_TerminalEventBeforeReturn ==
    DriverReturned =>
       \/ \E k \in 1..Len(events) :
             events[k].kind = "COMPLETED" \/ IsErrorEvent(events[k])
       \/ \E k \in 1..Len(progress_events) : IsErrorEvent(progress_events[k])

\* The RESTORE DATABASE command of the full backup is among the calls, with
\* one of the given statuses.
FullCommand(statuses) ==
    \E k \in 1..Len(calls) :
       calls[k].op = "RESTORE DATABASE" /\ calls[k].status \in statuses

\* C19: the monitor is started before the command of the full backup is
\* sent, restore_complete is set once that command has returned or raised,
\* and it is set whenever the driver has returned.
C19_MonitorBracketsFullStep ==
    /\ (pc = "f_issue" /\ restore_command.op = "RESTORE DATABASE") =>
          monitor_thread # "none" /\ ~restore_complete
    /\ FullCommand({"running", "ok", "failed"}) => monitor_thread # "none"
    /\ FullCommand({"ok", "failed"}) => restore_complete
    /\ DriverReturned => restore_complete

C19_Witness ==
    /\ FullCommand({"failed"})
    /\ monitor_thread = "poll"
    /\ restore_complete
    /\ pc = "done"

\* C20: a progress query that raises does not end the monitor: the loop is
\* left only when restore_complete is set, and from the except clause of a
\* failed poll the thread goes back to the loop test.
C20_FailingPollKeepsMonitor ==
    /\ [](monitor_thread = "exited" => restore_complete)
    /\ [][monitor_thread = "except" =>
            monitor_thread' \in {"except", "check"}]_vars

C20_Witness ==
    /\ monitor_thread = "except"
    /\ ~restore_complete
    /\ progress_events # <<>>


\* ------------------------------------------------------- monitor claims
\* A step of the monitor's thread.
MonitorStep == monitor_thread # "none" /\ monitor_thread' # monitor_thread

\* C21: no step of the monitor, a failing one included, changes the result
\* of the driver, where the driver is, or the commands it has sent; and a
\* driver that reports success has sent a command for every backup of the
\* chain.
C21_MonitorFailureContained ==
    /\ [][MonitorStep => UNCHANGED <<pc, result, ret, calls>>]_vars
    /\ [](DriverReturned /\ result.success =>
             Len(restore_calls) = Len(chain))

C21_Witness ==
    /\ monitor_thread = "failed"
    /\ progress_events = <<>>
    /\ pc = "done"
    /\ result.success
    /\ Len(restore_calls) = 2

\* C22: the driver returns its result whatever the monitor does, even when
\* the monitor's thread never ends.
C22_DriverReturnsWithoutMonitor == <>DriverReturned

C22_Witness ==
    /\ DriverReturned
    /\ monitor_thread \in {"connect", "check", "poll", "except"}

\* The monitor sends its progress query.
PollStep == monitor_thread = "poll" /\ monitor_thread' # "poll"

\* The RESTORE LOG command of a log backup is running.
LogStepRunning == pc = "f_exec" /\ restore_command.op = "RESTORE LOG"

\* C23 as stated: no progress query is sent while the command of a log
\* backup is running or after the driver has returned.
C23_NoPollOutsideFullStep ==
    [][PollStep => ~(LogStepRunning \/ DriverReturned)]_vars

\* C23: the monitor is started only for the command of the full backup; a
\* progress query sent while a log backup is restored or after the driver
\* has returned is one whose loop test came before restore_complete was
\* set, and the monitor gets to send a query only by a loop test that
\* found restore_complete not set.
C23_OnlyStalePollOutsideFullStep ==
    /\ [][(monitor_thread = "none" /\ monitor_thread' # "none") =>
            pc' = "f_issue" /\ restore_command'.op = "RESTORE DATABASE"]_vars
    /\ [][(PollStep /\ (LogStepRunning \/ DriverReturned)) =>
            restore_complete]_vars
    /\ [][(monitor_thread # "poll" /\ monitor_thread' = "poll") =>
            monitor_thread = "check" /\ ~restore_complete]_vars

C23_Witness ==
    /\ monitor_thread = "poll"
    /\ restore_complete
    /\ LogStepRunning

\* C24: restore_complete, once set, stays set; the monitor does not write
\* it, nor anything else the driver keeps for the request.
C24_StopSignalOneWay ==
    /\ [][restore_complete => restore_complete']_vars
    /\ [][MonitorStep =>
            UNCHANGED <<restore_complete, idx, restore_command, scan_result,
                        backups_info, scan_i, db_state, events>>]_vars

C24_Witness ==
    /\ restore_complete
    /\ monitor_thread = "check"
    /\ pc = "f_exec"
    /\ idx = 1


\* -------------------------------------------------------- reaper claims
\* Positions of the SET SINGLE_USER statements among the calls.
SingleUserCalls ==
    {k \in 1..Len(calls) : calls[k].op = "SET SINGLE_USER"}

\* A restore command has been sent.
RestoreStarted == \E k \in 1..Len(calls) : calls[k].op = "RESTORE DATABASE"

\* C25: in a run of restoration() SET SINGLE_USER is sent at most once, by
\* kill_database_connections: it is the first call of the run, made after
\* the operator confirmed for a database that exists, and a restore of a
\* database found to exist is preceded by exactly one.
C25_SingleEvictionByReaper ==
    caller \in {"restoration", "master"} =>
       /\ Cardinality(SingleUserCalls) <= 1
       /\ \A k \in SingleUserCalls :
             k = 1 /\ confirm = "y" /\ db_info = "exists"
       /\ (RestoreStarted /\ db_info = "exists") =>
             Cardinality(SingleUserCalls) = 1

\* kill_database_connections has run, and has returned True.
ReaperRan == confirm = "y" /\ pc # "r_kill"

ReaperReturnedTrue == ReaperRan /\ ~(pc = "done" /\ ~result.done)

\* restoration() has returned False before calling the driver.
Declined == pc = "done" /\ ~result.done

\* C26: restoration() sends no restore command when the operator declined
\* or kill_database_connections failed, and a restore command sent for a
\* database that exists comes after the confirmation and a successful
\* kill_database_connections.
C26_NoUnconfirmedOverwrite ==
    caller = "master" =>
       /\ Declined => ~RestoreStarted
       /\ (RestoreStarted /\ db_exists) => ReaperReturnedTrue

\* C27: kill_database_connections sends SET SINGLE_USER first and SET
\* MULTI_USER right after it, and returns True only when both were sent
\* and neither raised.
C27_ReaperBracket ==
    ReaperRan =>
       /\ Len(calls) >= 1 => calls[1].op = "SET SINGLE_USER"
       /\ \A k \in 1..Len(calls) :
             calls[k].op = "SET MULTI_USER" =>
                k = 2 /\ calls[1].op = "SET SINGLE_USER"
                      /\ calls[1].status = "ok"
       /\ ReaperReturnedTrue =>
             /\ Len(calls) >= 2
             /\ calls[1].op = "SET SINGLE_USER" /\ calls[1].status = "ok"
             /\ calls[2].op = "SET MULTI_USER" /\ calls[2].status = "ok"

C27_Witness ==
    /\ ReaperReturnedTrue
    /\ Len(calls) = 3
    /\ calls[3].op = "RESTORE DATABASE"
    /\ calls[3].status = "ok"


\* ------------------------------------------------- driver error claims
\* The restore command that raised, when there is one: it is the last call.
FailedStep ==
    /\ calls # <<>>
    /\ IsRestore(calls[Len(calls)])
    /\ calls[Len(calls)].status = "failed"

\* C28: the error returned for a failed restore command identifies the
\* step and the file: it is the error of no other step or file.
C28_StepErrorIdentifiesArtifact ==
    (DriverReturned /\ FailedStep) =>
       \A i \in 0..(MaxDriverFiles - 1), path \in 1..MaxDriverFiles :
          result.msg = step_error(i, path) =>
             /\ i = calls[Len(calls)].idx
             /\ path = calls[Len(calls)].path

\* Every backup of the chain has been restored without error.
AllStepsSucceeded ==
    /\ scan_result.done /\ scan_result.success
    /\ Len(restore_calls) = Len(chain)
    /\ \A k \in 1..Len(restore_calls) : restore_calls[k].status = "ok"

\* C29: once every restore command has succeeded the driver returns
\* success, whatever the query of the final state yields.
C29_FinalQueryInformational ==
    (DriverReturned /\ AllStepsSucceeded) => result.success

\* ---------------------------------------------------- resolution claims
\* The orders a list of n files can be enumerated in.
Orders(n) ==
    {q \in [1..n -> 1..n] : \A i, j \in 1..n : i # j => q[i] # q[j]}

\* C30: scan_backup_folder returns the same chain whatever order the files
\* were enumerated in.
C30_ResolutionReproducible ==
    HeadersRead =>
       \A q \in Orders(Len(backups_info)) :
          resolve([k \in 1..Len(backups_info) |-> backups_info[q[k]]])
             = scan_result

\* ---------------------------------------------------- relocation claims
\* The MOVE clauses name pairwise distinct logical files and send them to
\* pairwise distinct physical paths.
DistinctMoves(m) ==
    \A i, j \in 1..Len(m) :
       i # j => m[i].logical # m[j].logical /\ m[i].to # m[j].to

\* C31: with a restore_path, the MOVE clauses of the RESTORE DATABASE
\* command, one per logical file, map distinct logical files to pairwise
\* distinct physical paths.
C31_RelocationClausesDistinct ==
    restore_path =>
       \A k \in 1..Len(calls) :
          calls[k].op = "RESTORE DATABASE" => DistinctMoves(calls[k].moves)

MonitorEnded == monitor_thread \in {"exited", "failed"}

\* C33: once the stop signal is set, a monitor that is not already about to
\* poll never polls again, so at most the one poll in flight follows the
\* signal; and the monitor, when its calls return, ends.
C33_MonitorStopsAfterSignal ==
    /\ [][(restore_complete /\ monitor_thread # "poll")
            => monitor_thread' # "poll"]_vars
    /\ (restore_complete /\ monitor_thread # "none") ~> MonitorEnded

\* The monitor reported a percentage and left its loop while the driver
\* was still applying a log backup.
C33_Witness ==
    /\ monitor_thread = "exited"
    /\ restore_complete
    /\ progress_events # <<>>
    /\ LogStepRunning

\* The callback has received the terminal COMPLETED event.
DeliveredCompleted ==
    \E k \in 1..Len(events) : events[k].kind = "COMPLETED"

\* C34: after the driver has delivered COMPLETED the monitor delivers no
\* further percentage.
C34_NoPercentAfterCompleted ==
    [][DeliveredCompleted =>
          (progress_events' # progress_events =>
              progress_events'[Len(progress_events')].kind # "percent")]_vars

\* ------------------------------------------------- file driver claims
\* The calls restore_database_from_file made itself: those that follow the
\* two of kill_database_connections.
own_calls ==
    SubSeq(calls, IF caller = "master" /\ confirm = "y" THEN 3 ELSE 1,
           Len(calls))

\* restore_database_from_file has set the target to SINGLE_USER.
SwitchedToSingleUser ==
    \E k \in 1..Len(own_calls) :
       own_calls[k].op = "SET SINGLE_USER" /\ own_calls[k].status = "ok"

\* Positions of the SET MULTI_USER statements of the driver.
MultiUserCalls ==
    {k \in 1..Len(own_calls) : own_calls[k].op = "SET MULTI_USER"}

\* C35: when restore_database_from_file has set an existing target to
\* SINGLE_USER, it has on return sent SET MULTI_USER, once, if its last
\* query showed the target ONLINE, and has not sent it if that query showed
\* another state, no row, or failed.
C35_MultiUserIffOnline ==
    (DriverReturned /\ SwitchedToSingleUser) =>
       /\ cleanup_state = "ONLINE" => Cardinality(MultiUserCalls) = 1
       /\ cleanup_state # "ONLINE" => MultiUserCalls = {}

\* The restore failed, the target was still ONLINE and was given back to
\* all users.
C35_Witness ==
    /\ DriverReturned /\ SwitchedToSingleUser
    /\ ~result.success
    /\ cleanup_state = "ONLINE"
    /\ own_calls[Len(own_calls)].op = "SET MULTI_USER"

\* C36: restore_database_from_file returns after at most 1800 cycles of
\* its progress loop and at most 30 iterations of its verification loop,
\* whatever the engine answers.
C36_ReturnsWithinPollBounds ==
    /\ [](pc = "m_progress" => waited \div poll_period < 1800)
    /\ [](verify_i < 30)
    /\ [][pc = "m_progress" /\ pc' = "m_progress"
            => waited' = waited + poll_period]_vars
    /\ [][pc = "m_verify" /\ pc' = "m_verify" => verify_i' = verify_i + 1]_vars
    /\ <>(pc = "done")

\* The verification loop ran through all its iterations: the target was
\* RESTORING in each but the last, whose query raised.
C36_Witness ==
    /\ DriverReturned
    /\ result.msg = "FailedToVerify"
    /\ verify_i = 29
    /\ verifier.before = "all_restoring"

\* ------------------------------------------------------- pipeline claims
\* The positions of the purge batches among the calls of purge_years.
PurgeBatches == {k \in 1..Len(purge_log) : purge_log[k].op = "purge"}

\* PARTITION_YEARS minus REQUIRED_BACKUP_YEAR, as sets.
UnrequiredYears ==
    {purge_config.PARTITION_YEARS[k] :
        k \in 1..Len(purge_config.PARTITION_YEARS)}
      \ {purge_config.REQUIRED_BACKUP_YEAR[k] :
            k \in 1..Len(purge_config.REQUIRED_BACKUP_YEAR)}

\* No year has had two purge batches.
EachYearOnce ==
    \A i, j \in PurgeBatches :
       i # j => purge_log[i].year # purge_log[j].year

\* purge_years was called and has returned or raised.
PurgeEnded == \E k \in 1..Len(steps) : steps[k].name = "purge_years"

\* purge_years was called and has returned.
PurgeReturned ==
    \E k \in 1..Len(steps) : steps[k].name = "purge_years" /\ steps[k].ok

ScratchOrder ==
    <<"restoration", "prepare_database", "create_partitions",
      "create_indexes", "create_temp_tables", "create_master_backup",
      "purge_years", "yearly_backup">>

\* ScratchOrder without the master backup when the operator declined it.
ExpectedSteps ==
    SelectSeq(ScratchOrder,
              LAMBDA n : n # "create_master_backup" \/ master_bkp_flag = "y")

\* C38: from_scratch runs its steps in the fixed order; a failed
\* restoration or a step that raised is the last step run, nothing of
\* purge_years follows a failed restoration, and the pipeline then returns
\* False; it returns True only after every step.
C38_StepsInOrderAbortOnFailure ==
    choice = "1" =>
       /\ Len(steps) <= Len(ExpectedSteps)
       /\ \A k \in 1..Len(steps) : steps[k].name = ExpectedSteps[k]
       /\ \A k \in 1..(Len(steps) - 1) : steps[k].ok
       /\ (steps # <<>> /\ ~steps[Len(steps)].ok) =>
             /\ pipeline_ret = "False"
             /\ pc \in {"main_return", "exited"}
       /\ (steps # <<>> /\ ~steps[1].ok) =>
             purge_log = <<>> /\ purge_config = NoYears
       /\ pipeline_ret = "True" =>
             /\ Len(steps) = Len(ExpectedSteps)
             /\ \A k \in 1..Len(steps) : steps[k].ok

\* The restoration failed and the script has ended.
C38_Witness ==
    /\ choice = "1"
    /\ steps = <<Step("restoration", FALSE)>>
    /\ pipeline_ret = "False"
    /\ pc = "exited"

\* C39: the process exits with status 0 exactly when the pipeline it ran
\* returned True.
C39_ExitStatusReflectsOutcome ==
    pc = "exited" => (exit_status = 0 <=> pipeline_ret = "True")

====
